---- MODULE Spec2Model ----
(***************************************************************************)
(* A model of duckdb's FixedSizeAllocator                                  *)
(* (src/execution/index/fixed_size_allocator.cpp): the constructor's       *)
(* layout computation, New / Free / Reset / Merge, the three-phase vacuum  *)
(* protocol, and Serialize / Deserialize.                                  *)
(*                                                                         *)
(* A 64-bit bitmask word (validity_t) is the set of the positions of its   *)
(* set bits, a subset of 0..63, so that the bit operations of the source   *)
(* are set operations here and no value exceeds TLC's integer range.       *)
(***************************************************************************)
EXTENDS Integers, Sequences, FiniteSets, TLC

VARIABLES
    ctor,       \* the constructor's locals and the position in its body
    alloc,      \* alloc[a]: the fields of allocator a
    owned,      \* owned[a]: the caller's live pointers into a, with the value it stored
    disk,       \* the blocks written by FixedSizeBuffer::Serialize
    stream,     \* the metadata stream written by Serialize
    pass,       \* pass[a]: what the caller recorded when a vacuum pass began
    last        \* the last operation and what it returned

vars == <<ctor, alloc, owned, disk, stream, pass, last>>

-----------------------------------------------------------------------------
(* Program constants *)

\* Storage::BLOCK_SIZE
BLOCK_SIZE == 262144

\* sizeof(validity_t)
SIZEOF_VALIDITY == 8

\* FixedSizeAllocator::VACUUM_THRESHOLD
VACUUM_THRESHOLD == 10

\* the number of levels of the BASE / SHIFT ladder
LEVELS == 6

(* Bounds of the model *)

\* the allocators of the model are constructed with the largest segment
\* size that leaves this many segments per buffer
SlotsPerBuffer == 2

\* New and Merge are not taken when they would leave more buffers than this
MaxBuffers == 3

\* Merge is not taken when it would create a buffer id above this
MaxBufferId == 3

\* the caller stores a value of 1..MaxVal into a segment it allocated
MaxVal == 2

\* the constructor is run for every segment size of 1..BLOCK_SIZE + SizeMargin
SizeMargin == 8

\* Serialize is not taken when the disk would hold more blocks than this
MaxBlocks == 3

\* in the scenario of the small segments New is not taken when this many
\* segments are allocated
ScenarioSlots == 11

-----------------------------------------------------------------------------
(* Small helpers *)

MinValue(a, b) == IF a < b THEN a ELSE b

RECURSIVE SumOver(_, _)
SumOver(f, S) ==
    IF S = {} THEN 0
    ELSE LET x == CHOOSE y \in S : TRUE IN f[x] + SumOver(f, S \ {x})

SetMax(S) == CHOOSE x \in S : \A y \in S : y <= x

\* the sequences that enumerate the finite set S without repetition
RECURSIVE Orders(_)
Orders(S) ==
    IF S = {} THEN {<< >>}
    ELSE UNION {{<<x>> \o t : t \in Orders(S \ {x})} : x \in S}

-----------------------------------------------------------------------------
(* 64-bit words as sets of bit positions *)

BITS_PER_VALUE == SIZEOF_VALIDITY * 8

Bits == 0 .. (BITS_PER_VALUE - 1)

ShiftRight(w, s) == {b - s : b \in {c \in w : c >= s}}

\* ~idx_t(0) << n
OnesShiftedLeft(n) == {b \in Bits : b >= n}

SHIFT_TABLE == <<32, 16, 8, 4, 2, 1>>

SHIFT(i) == SHIFT_TABLE[i + 1]

\* the lower half of every sub-word of level i
BASE_TABLE == [i \in 0 .. 5 |-> {b \in Bits : (b \div SHIFT(i)) % 2 = 0}]

BASE(i) == BASE_TABLE[i]

-----------------------------------------------------------------------------
(* unsigned 64-bit arithmetic: an idx_t is the tuple of its eight base-256
   digits, the least significant first *)

\* The idx_t that holds x: x itself for 0 <= x < 2^31, and 2^64 + x, the
\* value a subtraction leaves after it wrapped, for -2^31 < x < 0.
U64Digits(x) ==
    LET byte(y, i) == (y \div (256 ^ i)) % 256
    IN IF x >= 0
       THEN <<byte(x, 0), byte(x, 1), byte(x, 2), byte(x, 3), 0, 0, 0, 0>>
       ELSE <<255 - byte((-x) - 1, 0), 255 - byte((-x) - 1, 1),
              255 - byte((-x) - 1, 2), 255 - byte((-x) - 1, 3),
              255, 255, 255, 255>>

\* the integer of an idx_t below 2^31
U64Int(a) == a[1] + 256 * (a[2] + 256 * (a[3] + 256 * a[4]))

\* a < b: the most significant digit in which they differ is smaller in a
U64Less(a, b) ==
    \E i \in 1..8 : a[i] < b[i] /\ \A j \in (i + 1)..8 : a[j] = b[j]

\* a / d for 0 < d < 2^23: at once when a is below 2^31, else by long
\* division from the most significant digit (rem[i] is the remainder that
\* the digits i..8 leave)
U64Div(a, d) ==
    IF a[4] < 128 /\ \A i \in 5..8 : a[i] = 0
    THEN U64Digits(U64Int(a) \div d)
    ELSE LET rem[i \in 1..9] == IF i = 9 THEN 0 ELSE (rem[i + 1] * 256 + a[i]) % d
         IN [i \in 1..8 |-> (rem[i + 1] * 256 + a[i]) \div d]

\* a * m (mod 2^64) for 0 <= m < 2^22: at once when a is below 256, else
\* digit by digit (carry[i] is what the digits 1..i carry over)
U64Mul(a, m) ==
    IF \A i \in 2..8 : a[i] = 0
    THEN U64Digits(a[1] * m)
    ELSE LET carry[i \in 0..8] ==
                 IF i = 0 THEN 0 ELSE (a[i] * m + carry[i - 1]) \div 256
         IN [i \in 1..8 |-> (a[i] * m + carry[i - 1]) % 256]

-----------------------------------------------------------------------------
(* FixedSizeAllocator::FixedSizeAllocator *)

CtorStart(segment_size) ==
    [pc |-> "start", segment_size |-> segment_size, byte_count |-> 0,
     bitmask_count |-> 0, available_segments_per_buffer |-> 0,
     bitmask_offset |-> 0]

\* CtorCheckBody with >= for > at line 14
CtorCheckBodyInclusive(c) ==
    IF c.segment_size >= BLOCK_SIZE - SIZEOF_VALIDITY
    THEN [c EXCEPT !.pc = "throw"]
    ELSE [c EXCEPT !.pc = "loop"]

\* lines 14-25: the size check and the initialisation of the locals
CtorCheckBody(c) ==
    IF c.segment_size > BLOCK_SIZE - SIZEOF_VALIDITY
    THEN [c EXCEPT !.pc = "throw"]
    ELSE [c EXCEPT !.pc = "loop"]

\* line 28: whether another validity_t is added to the bitmask
CtorGrowsBitmask(c) ==
    \/ c.bitmask_count = 0
    \/ (c.bitmask_count * BITS_PER_VALUE) % c.available_segments_per_buffer = 0

\* lines 35-36: remaining_bytes is an idx_t, so the subtraction wraps
CtorRemainingSegments(byte_count, segment_size) ==
    LET remaining_bytes == U64Digits(BLOCK_SIZE - byte_count)
        quotient == U64Div(remaining_bytes, segment_size)
    IN IF U64Less(quotient, U64Digits(BITS_PER_VALUE))
       THEN U64Int(quotient)
       ELSE BITS_PER_VALUE

\* lines 27-44: one evaluation of the loop condition and, if it holds, of the body
CtorLoopBody(c) ==
    IF ~(c.byte_count < BLOCK_SIZE)
    THEN [c EXCEPT !.pc = "exit"]
    ELSE LET grow == CtorGrowsBitmask(c)
             bitmask_count == IF grow THEN c.bitmask_count + 1 ELSE c.bitmask_count
             byte_count == IF grow THEN c.byte_count + SIZEOF_VALIDITY ELSE c.byte_count
             remaining_segments == CtorRemainingSegments(byte_count, c.segment_size)
         IN IF remaining_segments = 0
            THEN [c EXCEPT !.pc = "exit", !.bitmask_count = bitmask_count,
                           !.byte_count = byte_count]
            ELSE [c EXCEPT !.bitmask_count = bitmask_count,
                           !.available_segments_per_buffer = @ + remaining_segments,
                           !.byte_count = byte_count + remaining_segments * c.segment_size]

\* line 46
CtorFinishBody(c) ==
    [c EXCEPT !.pc = "done", !.bitmask_offset = c.bitmask_count * SIZEOF_VALIDITY]

\* the next step of the constructor
CtorStepBody(c) ==
    CASE c.pc = "start" -> CtorCheckBody(c)
      [] c.pc = "loop"  -> CtorLoopBody(c)
      [] c.pc = "exit"  -> CtorFinishBody(c)
      [] OTHER          -> c

\* up to n steps of the constructor (halved, to keep the evaluation shallow)
RECURSIVE CtorSteps(_, _)
CtorSteps(c, n) ==
    IF c.pc \in {"done", "throw"} THEN c
    ELSE IF n = 1 THEN CtorStepBody(c)
    ELSE CtorSteps(CtorSteps(c, n \div 2), n - n \div 2)

\* every round of the loop but the last adds a segment of at least one byte,
\* so the constructor ends within BLOCK_SIZE + 3 steps
CtorRun(c) == CtorSteps(c, BLOCK_SIZE + 3)

\* the constructor, run to its end
Construct(segment_size) == CtorRun(CtorStart(segment_size))

-----------------------------------------------------------------------------
(* The constructor as a process *)

CtorSizes == 1 .. (BLOCK_SIZE + SizeMargin)

CtorCheck ==
    /\ ctor.pc = "start"
    /\ ctor' = CtorCheckBody(ctor)
    /\ UNCHANGED <<alloc, owned, disk, stream, pass, last>>

CtorLoop ==
    /\ ctor.pc = "loop"
    /\ ctor' = CtorLoopBody(ctor)
    /\ UNCHANGED <<alloc, owned, disk, stream, pass, last>>

CtorFinish ==
    /\ ctor.pc = "exit"
    /\ ctor' = CtorFinishBody(ctor)
    /\ UNCHANGED <<alloc, owned, disk, stream, pass, last>>

-----------------------------------------------------------------------------
(* ValidityMask over the bitmask words at the head of a buffer *)

EntryOf(i) == i \div BITS_PER_VALUE
BitOf(i) == i % BITS_PER_VALUE

\* ValidityMask::RowIsValid: the bit of row i is set, the segment is free
RowIsValid(mask, i) == EntryOf(i) \in DOMAIN mask /\ BitOf(i) \in mask[EntryOf(i)]

\* ValidityMask::SetValid
SetValid(mask, i) == [mask EXCEPT ![EntryOf(i)] = @ \cup {BitOf(i)}]

\* ValidityMask::SetInvalid
SetInvalid(mask, i) == [mask EXCEPT ![EntryOf(i)] = @ \ {BitOf(i)}]

\* ValidityMask::SetAllValid(count) on the bitmask of a new buffer:
\* the bits 0..count-1 set, the others clear
SetAllValid(bitmask_count, count) ==
    [e \in 0 .. (bitmask_count - 1) |->
        {b \in Bits : e * BITS_PER_VALUE + b < count}]

\* the rows of a bitmask whose bit is clear (the allocated segments) among 0..n-1
ClearedRows(mask, n) == {i \in 0 .. (n - 1) : ~RowIsValid(mask, i)}

-----------------------------------------------------------------------------
(* FixedSizeBuffer *)

NoPointer == << >>
NoMemory == << >>

\* BlockPointer(): the invalid block pointer of a buffer that is not on disk
INVALID_BLOCK == 0

\* FixedSizeBuffer(block_manager): a new buffer, in memory, nothing allocated
FreshBuffer(al) ==
    [segment_count |-> 0, allocation_size |-> 0, vacuum |-> FALSE,
     block_pointer |-> INVALID_BLOCK, in_memory |-> TRUE,
     mask |-> SetAllValid(al.bitmask_count, al.available_segments_per_buffer),
     data |-> [i \in 0 .. (al.available_segments_per_buffer - 1) |-> 0]]

\* FixedSizeBuffer(block_manager, segment_count, allocation_size, block_pointer):
\* a buffer restored from disk, not loaded yet
RestoredBuffer(segment_count, allocation_size, block_pointer) ==
    [segment_count |-> segment_count, allocation_size |-> allocation_size,
     vacuum |-> FALSE, block_pointer |-> block_pointer, in_memory |-> FALSE,
     mask |-> NoMemory, data |-> NoMemory]

\* FixedSizeBuffer::Get: the buffer pinned, loaded from its block if it is on disk
Pin(buffer, blocks) ==
    IF buffer.in_memory THEN buffer
    ELSE [buffer EXCEPT !.in_memory = TRUE,
                        !.mask = blocks[buffer.block_pointer].mask,
                        !.data = blocks[buffer.block_pointer].data]

\* FixedSizeBuffer::InMemory
InMemory(buffer) == buffer.in_memory

-----------------------------------------------------------------------------
(* The allocator's fields after construction *)

NewAllocator(segment_size) ==
    LET c == Construct(segment_size)
    IN [segment_size |-> segment_size,
        bitmask_count |-> c.bitmask_count,
        bitmask_offset |-> c.bitmask_offset,
        available_segments_per_buffer |-> c.available_segments_per_buffer,
        buffers |-> << >>,
        buffers_with_free_space |-> {},
        vacuum_buffers |-> {},
        total_segment_count |-> 0]

\* buffers.insert(make_pair(id, buffer)): an existing key is left as it is
Insert(buffers, id, buffer) ==
    [k \in DOMAIN buffers \cup {id} |->
        IF k \in DOMAIN buffers THEN buffers[k] ELSE buffer]

\* idx_t decrement: 0 wraps to 2^64 - 1, written U64_MAX
U64_MAX == -1
U64Dec(x) == IF x = 0 THEN U64_MAX ELSE x - 1

-----------------------------------------------------------------------------
(* FixedSizeAllocator::GetAvailableBufferId *)

RECURSIVE ScanDownFrom(_, _)
ScanDownFrom(buffers, buffer_id) ==
    IF buffer_id \in DOMAIN buffers
    THEN ScanDownFrom(buffers, buffer_id - 1)
    ELSE buffer_id

\* GetAvailableBufferId with the scan begun at buffers.size() - 1
GetAvailableBufferIdFromLast(buffers) ==
    ScanDownFrom(buffers, Cardinality(DOMAIN buffers) - 1)

GetAvailableBufferId(buffers) ==
    ScanDownFrom(buffers, Cardinality(DOMAIN buffers))

-----------------------------------------------------------------------------
(* FixedSizeAllocator::GetOffset *)

\* lines 318-330: the position of the rightmost set bit of a non-zero entry
\* RightmostLadder with the left half of every level tested first
RECURSIVE RightmostLadderLeftFirst(_, _, _)
RightmostLadderLeftFirst(entry, i, first_valid_bit) ==
    IF i = LEVELS THEN first_valid_bit
    ELSE IF ShiftRight(entry, SHIFT(i)) # {}
         THEN RightmostLadderLeftFirst(ShiftRight(entry, SHIFT(i)), i + 1,
                                       first_valid_bit + SHIFT(i))
         ELSE RightmostLadderLeftFirst(entry \cap BASE(i), i + 1, first_valid_bit)

RECURSIVE RightmostLadder(_, _, _)
RightmostLadder(entry, i, first_valid_bit) ==
    IF i = LEVELS THEN first_valid_bit
    ELSE IF entry \cap BASE(i) # {}
         THEN RightmostLadder(entry \cap BASE(i), i + 1, first_valid_bit)
         ELSE RightmostLadder(ShiftRight(entry, SHIFT(i)), i + 1,
                              first_valid_bit + SHIFT(i))

\* line 301 reads the bit of row segment_count without a bounds check: a
\* segment_count that has wrapped (line 105) lies behind the bitmask
ReadsBehindBitmask(mask, segment_count) == EntryOf(segment_count) \notin DOMAIN mask

\* GetOffset with line 302 left out: the fast path does not clear the bit
GetOffsetBitLeftSet(al, mask, segment_count) ==
    IF ReadsBehindBitmask(mask, segment_count)
    THEN [threw |-> FALSE, ub |-> TRUE, offset |-> 0, mask |-> mask]
    ELSE IF RowIsValid(mask, segment_count)
    THEN [threw |-> FALSE, ub |-> FALSE, offset |-> segment_count, mask |-> mask]
    ELSE LET nonzero == {e \in 0 .. (al.bitmask_count - 1) : mask[e] # {}}
         IN IF nonzero = {}
            THEN [threw |-> TRUE, ub |-> FALSE, offset |-> 0, mask |-> mask]
            ELSE LET entry_idx == CHOOSE e \in nonzero : \A f \in nonzero : e <= f
                     first_valid_bit == RightmostLadder(mask[entry_idx], 0, 0)
                     prev_bits == entry_idx * BITS_PER_VALUE
                 IN [threw |-> FALSE, ub |-> FALSE, offset |-> prev_bits + first_valid_bit,
                     mask |-> SetInvalid(mask, prev_bits + first_valid_bit)]

\* GetOffset with lines 301-304 left out: always the search of lines 306-336
GetOffsetSearchOnly(al, mask, segment_count) ==
    LET nonzero == {e \in 0 .. (al.bitmask_count - 1) : mask[e] # {}}
    IN IF nonzero = {}
       THEN [threw |-> TRUE, ub |-> FALSE, offset |-> 0, mask |-> mask]
       ELSE LET entry_idx == CHOOSE e \in nonzero : \A f \in nonzero : e <= f
                first_valid_bit == RightmostLadder(mask[entry_idx], 0, 0)
                prev_bits == entry_idx * BITS_PER_VALUE
            IN [threw |-> FALSE, ub |-> FALSE, offset |-> prev_bits + first_valid_bit,
                mask |-> SetInvalid(mask, prev_bits + first_valid_bit)]

\* [threw, ub, offset, mask]: the offset taken and the bitmask with its bit
\* cleared; ub when line 301 reads behind the bitmask
GetOffset(al, mask, segment_count) ==
    IF ReadsBehindBitmask(mask, segment_count)
    THEN [threw |-> FALSE, ub |-> TRUE, offset |-> 0, mask |-> mask]
    ELSE IF RowIsValid(mask, segment_count)
    THEN [threw |-> FALSE, ub |-> FALSE, offset |-> segment_count,
          mask |-> SetInvalid(mask, segment_count)]
    ELSE LET nonzero == {e \in 0 .. (al.bitmask_count - 1) : mask[e] # {}}
         IN IF nonzero = {}
            THEN [threw |-> TRUE, ub |-> FALSE, offset |-> 0, mask |-> mask]
            ELSE LET entry_idx == CHOOSE e \in nonzero : \A f \in nonzero : e <= f
                     first_valid_bit == RightmostLadder(mask[entry_idx], 0, 0)
                     prev_bits == entry_idx * BITS_PER_VALUE
                 IN [threw |-> FALSE, ub |-> FALSE, offset |-> prev_bits + first_valid_bit,
                     mask |-> SetInvalid(mask, prev_bits + first_valid_bit)]

-----------------------------------------------------------------------------
(* FixedSizeAllocator::New *)

\* the buffer ids that *buffers_with_free_space.begin() can be at line 69:
\* the set is unordered, so any member, and the new buffer if there was none
NewCandidates(al) ==
    IF al.buffers_with_free_space = {}
    THEN {GetAvailableBufferId(al.buffers)}
    ELSE al.buffers_with_free_space

\* lines 52-65
NewAddBuffer(al) ==
    IF al.buffers_with_free_space = {}
    THEN LET buffer_id == GetAvailableBufferId(al.buffers)
         IN [al EXCEPT !.buffers = Insert(@, buffer_id, FreshBuffer(al)),
                       !.buffers_with_free_space = @ \cup {buffer_id}]
    ELSE al

\* NewCount with lines 79-81 left out: a full buffer stays in buffers_with_free_space
NewCountKeepsFull(al, buffer_id, buffer) ==
    [al EXCEPT
       !.buffers = [@ EXCEPT ![buffer_id] = [buffer EXCEPT !.segment_count = @ + 1]],
       !.total_segment_count = @ + 1]

\* NewCount with the test of line 79 off by one: a buffer leaves
\* buffers_with_free_space while it has one segment left
NewCountFullEarly(al, buffer_id, buffer) ==
    LET counted == [buffer EXCEPT !.segment_count = @ + 1]
    IN [al EXCEPT
          !.buffers = [@ EXCEPT ![buffer_id] = counted],
          !.total_segment_count = @ + 1,
          !.buffers_with_free_space =
              IF counted.segment_count + 1 >= al.available_segments_per_buffer
              THEN @ \ {buffer_id} ELSE @]

\* lines 77-81, for the buffer with its bitmask already updated
NewCount(al, buffer_id, buffer) ==
    LET counted == [buffer EXCEPT !.segment_count = @ + 1]
    IN [al EXCEPT
          !.buffers = [@ EXCEPT ![buffer_id] = counted],
          !.total_segment_count = @ + 1,
          !.buffers_with_free_space =
              IF counted.segment_count = al.available_segments_per_buffer
              THEN @ \ {buffer_id} ELSE @]

\* New with buffer_id the element taken at line 69.
\* [al, ptr, fault]: "ub" when the buffer is looked up and is not there
\* (line 72 dereferences end()) or GetOffset reads behind the bitmask,
\* "throw" when GetOffset throws
New(al, buffer_id, blocks) ==
    LET al1 == NewAddBuffer(al)
    IN IF buffer_id \notin DOMAIN al1.buffers
       THEN [al |-> al1, ptr |-> NoPointer, fault |-> "ub"]
       ELSE LET buffer == Pin(al1.buffers[buffer_id], blocks)
                got == GetOffset(al1, buffer.mask, buffer.segment_count)
            IN IF got.ub
               THEN [al |-> [al1 EXCEPT !.buffers[buffer_id] = buffer],
                     ptr |-> NoPointer, fault |-> "ub"]
               ELSE IF got.threw
               THEN [al |-> [al1 EXCEPT !.buffers[buffer_id] = buffer],
                     ptr |-> NoPointer, fault |-> "throw"]
               ELSE [al |-> NewCount(al1, buffer_id, [buffer EXCEPT !.mask = got.mask]),
                     ptr |-> <<buffer_id, got.offset>>, fault |-> "none"]

-----------------------------------------------------------------------------
(* FixedSizeAllocator::Free *)

\* FreeCount with line 105 left out: the buffer's segment_count is not decremented
FreeCountKeepsSegment(al, buffer_id, buffer) ==
    [al EXCEPT
       !.buffers = [@ EXCEPT ![buffer_id] = buffer],
       !.buffers_with_free_space = @ \cup {buffer_id},
       !.total_segment_count = U64Dec(@)]

\* lines 102-105
FreeCount(al, buffer_id, buffer) ==
    [al EXCEPT
       !.buffers = [@ EXCEPT ![buffer_id] =
                       [buffer EXCEPT !.segment_count = U64Dec(@)]],
       !.buffers_with_free_space = @ \cup {buffer_id},
       !.total_segment_count = U64Dec(@)]

\* Free of a pointer into a buffer of al (release build: the D_ASSERTs are no-ops)
Free(al, ptr, blocks) ==
    LET buffer_id == ptr[1]
        offset == ptr[2]
        buffer == Pin(al.buffers[buffer_id], blocks)
    IN FreeCount(al, buffer_id, [buffer EXCEPT !.mask = SetValid(@, offset)])

\* Free in a build with the D_ASSERTs compiled in (asserts) or out:
\* [al, fault], "assert" when the D_ASSERT of line 96 fails, before anything
\* is written, or when one of lines 99-100 fails, after line 97 has set the bit
FreeBuild(al, ptr, blocks, asserts) ==
    LET buffer == Pin(al.buffers[ptr[1]], blocks)
        freed == [buffer EXCEPT !.mask = SetValid(@, ptr[2])]
    IN IF asserts /\ RowIsValid(buffer.mask, ptr[2])
       THEN [al |-> [al EXCEPT !.buffers[ptr[1]] = buffer], fault |-> "assert"]
       ELSE IF asserts /\ (al.total_segment_count = 0 \/ buffer.segment_count = 0)
       THEN [al |-> [al EXCEPT !.buffers[ptr[1]] = freed], fault |-> "assert"]
       ELSE [al |-> Free(al, ptr, blocks), fault |-> "none"]

-----------------------------------------------------------------------------
(* FixedSizeAllocator::Reset *)

Reset(al) ==
    [al EXCEPT !.buffers = << >>,
               !.buffers_with_free_space = {},
               !.total_segment_count = 0]

-----------------------------------------------------------------------------
(* FixedSizeAllocator::GetMemoryUsage, GetUpperBoundBufferId, Merge *)

InMemoryIds(al) == {id \in DOMAIN al.buffers : InMemory(al.buffers[id])}

GetMemoryUsage(al) == Cardinality(InMemoryIds(al)) * BLOCK_SIZE

\* lines 129-133 for the buffers with the ids of S, in any order
RECURSIVE UpperBoundScan(_, _)
UpperBoundScan(S, upper_bound_id) ==
    IF S = {} THEN upper_bound_id
    ELSE LET id == CHOOSE x \in S : TRUE
         IN UpperBoundScan(S \ {id},
                           IF id >= upper_bound_id THEN id + 1 ELSE upper_bound_id)

\* GetUpperBoundBufferId with > for >= at line 130
RECURSIVE UpperBoundScanStrict(_, _)
UpperBoundScanStrict(S, upper_bound_id) ==
    IF S = {} THEN upper_bound_id
    ELSE LET id == CHOOSE x \in S : TRUE
         IN UpperBoundScanStrict(S \ {id},
                                 IF id > upper_bound_id THEN id + 1 ELSE upper_bound_id)

GetUpperBoundBufferIdStrict(al) == UpperBoundScanStrict(DOMAIN al.buffers, 0)

GetUpperBoundBufferId(al) == UpperBoundScan(DOMAIN al.buffers, 0)

\* lines 142-146: the buffers of other moved into al
MergeBuffers(al, other) ==
    LET upper_bound_id == GetUpperBoundBufferId(al)
        moved == {id + upper_bound_id : id \in DOMAIN other.buffers}
    IN [k \in DOMAIN al.buffers \cup moved |->
          IF k \in DOMAIN al.buffers THEN al.buffers[k]
          ELSE other.buffers[k - upper_bound_id]]

\* the receiving allocator after Merge(other)
MergeInto(al, other) ==
    LET upper_bound_id == GetUpperBoundBufferId(al)
    IN [al EXCEPT
          !.buffers = MergeBuffers(al, other),
          !.buffers_with_free_space =
              @ \cup {id + upper_bound_id : id \in other.buffers_with_free_space},
          !.total_segment_count = @ + other.total_segment_count]

\* the allocator that was merged from, after Merge
MergeFrom(other) ==
    [other EXCEPT !.buffers = << >>, !.buffers_with_free_space = {}]

-----------------------------------------------------------------------------
(* FixedSizeAllocator::InitializeVacuum *)

\* line 175: a subtraction of idx_t, which wraps when the buffer holds more
\* segments than available_segments_per_buffer
AvailableSegmentsInBuffer(al, id) ==
    U64Digits(al.available_segments_per_buffer - al.buffers[id].segment_count)

\* The orders in which the multimap temporary_vacuum_buffers can hold the
\* in-memory buffers: by ascending number of free segments, and buffers with
\* the same number in the order in which the unordered map was iterated.
MultimapOrders(al) ==
    LET free == [id \in InMemoryIds(al) |-> AvailableSegmentsInBuffer(al, id)]
    IN {o \in Orders(InMemoryIds(al)) :
           \A i, j \in 1 .. Len(o) : i < j => ~U64Less(free[o[j]], free[o[i]])}

\* line 173, for every buffer
ClearVacuumFlags(al) ==
    [al EXCEPT !.buffers = [id \in DOMAIN al.buffers |->
                               [al.buffers[id] EXCEPT !.vacuum = FALSE]]]

\* ExcessBufferCount with the quotient of line 186 rounded up
ExcessBufferCountRoundedUp(al) ==
    LET free == [id \in InMemoryIds(al) |->
                    al.available_segments_per_buffer - al.buffers[id].segment_count]
    IN U64Div(U64Digits(SumOver(free, InMemoryIds(al))
                            + al.available_segments_per_buffer - 1),
              al.available_segments_per_buffer)

\* lines 176 and 186: the idx_t excess_buffer_count. The sum (mod 2^64) of
\* the idx_t values of line 175 is the idx_t of the sum of the differences.
ExcessBufferCount(al) ==
    LET free == [id \in InMemoryIds(al) |->
                    al.available_segments_per_buffer - al.buffers[id].segment_count]
    IN U64Div(U64Digits(SumOver(free, InMemoryIds(al))),
              al.available_segments_per_buffer)

\* lines 190-194: excess_percentage < threshold, with the idx_t product
\* (mod 2^64) of line 191. The doubles of both values are exact or far apart,
\* so the comparison excess_memory_usage / memory_usage < VACUUM_THRESHOLD / 100
\* is that of excess_memory_usage with memory_usage * VACUUM_THRESHOLD / 100
\* rounded up.
BelowThreshold(al) ==
    LET excess_memory_usage == U64Mul(ExcessBufferCount(al), BLOCK_SIZE)
        memory_usage == GetMemoryUsage(al)
    IN U64Less(excess_memory_usage,
               U64Digits((memory_usage * VACUUM_THRESHOLD + 99) \div 100))

\* lines 202-204: what is left of the multimap after erasing from its begin
\* until excess_buffer_count entries remain
Trimmed(order, excess_buffer_count) ==
    {order[i] : i \in (Len(order) - excess_buffer_count + 1) .. Len(order)}

\* lines 207-216
FlagBuffers(al, ids) ==
    [al EXCEPT
       !.buffers = [id \in DOMAIN al.buffers |->
                       IF id \in ids THEN [al.buffers[id] EXCEPT !.vacuum = TRUE]
                       ELSE al.buffers[id]],
       !.buffers_with_free_space = @ \ ids,
       !.vacuum_buffers = @ \cup ids]

\* InitializeVacuum with the multimap in the given order: [al, ret, fault]
InitializeVacuum(al, order) ==
    IF al.total_segment_count = 0
    THEN [al |-> Reset(al), ret |-> FALSE, fault |-> "none"]
    ELSE LET cleared == ClearVacuumFlags(al)
         IN IF InMemoryIds(al) = {}
            THEN [al |-> cleared, ret |-> FALSE, fault |-> "none"]
            ELSE IF BelowThreshold(cleared)
            THEN [al |-> cleared, ret |-> FALSE, fault |-> "none"]
            ELSE LET excess_buffer_count == ExcessBufferCount(cleared)
                 IN IF U64Less(U64Digits(Len(order)), excess_buffer_count)
                    \* the loop of line 202 erases begin() of an empty multimap
                    THEN [al |-> cleared, ret |-> FALSE, fault |-> "ub"]
                    ELSE [al |-> FlagBuffers(cleared,
                                             Trimmed(order, U64Int(excess_buffer_count))),
                          ret |-> TRUE, fault |-> "none"]

\* InitializeVacuum in a build with the D_ASSERTs compiled in (asserts) or
\* out: "assert" when the D_ASSERT of line 169 or of line 189 fails
InitializeVacuumBuild(al, order, asserts) ==
    IF asserts /\ al.total_segment_count # 0 /\ al.vacuum_buffers # {}
    THEN [al |-> al, ret |-> FALSE, fault |-> "assert"]
    ELSE IF /\ asserts /\ al.total_segment_count # 0 /\ InMemoryIds(al) # {}
            /\ ~U64Less(ExcessBufferCount(ClearVacuumFlags(al)), U64Digits(Len(order)))
    THEN [al |-> ClearVacuumFlags(al), ret |-> FALSE, fault |-> "assert"]
    ELSE InitializeVacuum(al, order)

-----------------------------------------------------------------------------
(* FixedSizeAllocator::FinalizeVacuum *)

\* [al, fault]: "ub" when a buffer of vacuum_buffers is not in buffers
\* (line 225 dereferences end())
FinalizeVacuum(al) ==
    [al |-> [al EXCEPT
               !.buffers = [id \in DOMAIN al.buffers \ al.vacuum_buffers |-> al.buffers[id]],
               !.vacuum_buffers = {}],
     fault |-> IF al.vacuum_buffers \subseteq DOMAIN al.buffers THEN "none" ELSE "ub"]

-----------------------------------------------------------------------------
(* FixedSizeAllocator::VacuumPointer *)

\* CopySegment with the memcpy left out: the buffers are pinned, nothing is copied
CopySegmentNothing(al, new_ptr, ptr, blocks) ==
    LET src == Pin(al.buffers[ptr[1]], blocks)
        al1 == [al EXCEPT !.buffers[ptr[1]] = src]
    IN [al |-> [al1 EXCEPT !.buffers[new_ptr[1]] = Pin(@, blocks)], fault |-> "none"]

\* line 242: memcpy(Get(new_ptr), Get(ptr), segment_size); Get pins both
\* buffers. [al, fault]: "ub" when the memcpy reads or writes behind the end
\* of a buffer, that is when the segment_size bytes at Get(p), which begin
\* bitmask_offset + offset * segment_size bytes into the buffer, do not lie
\* inside its BLOCK_SIZE bytes
CopySegment(al, new_ptr, ptr, blocks) ==
    LET src == Pin(al.buffers[ptr[1]], blocks)
        al1 == [al EXCEPT !.buffers[ptr[1]] = src]
        dst == Pin(al1.buffers[new_ptr[1]], blocks)
        in_buffer(p) == al.bitmask_offset + (p[2] + 1) * al.segment_size <= BLOCK_SIZE
    IN IF in_buffer(new_ptr) /\ in_buffer(ptr)
       THEN [al |-> [al1 EXCEPT !.buffers[new_ptr[1]] =
                        [dst EXCEPT !.data[new_ptr[2]] = src.data[ptr[2]]]],
             fault |-> "none"]
       ELSE [al |-> [al1 EXCEPT !.buffers[new_ptr[1]] = dst], fault |-> "ub"]

\* line 240
VacuumUncount(al) == [al EXCEPT !.total_segment_count = U64Dec(@)]

\* VacuumPointer with buffer_id the element New takes: [al, ptr, fault]
VacuumPointer(al, ptr, buffer_id, blocks) ==
    LET new == New(al, buffer_id, blocks)
    IN IF new.fault # "none" THEN new
       ELSE LET copied == CopySegment(VacuumUncount(new.al), new.ptr, ptr, blocks)
            IN [al |-> copied.al, ptr |-> new.ptr, fault |-> copied.fault]

-----------------------------------------------------------------------------
(* FixedSizeAllocator::GetMaxOffset *)

\* lines 372-385: the position of the leftmost set bit of a non-zero entry
RECURSIVE LeftmostLadder(_, _, _)
LeftmostLadder(entry_inv, level, first_valid_bit) ==
    IF level = LEVELS THEN first_valid_bit
    ELSE IF entry_inv \cap (Bits \ BASE(level)) # {}
         THEN LeftmostLadder(ShiftRight(entry_inv, SHIFT(level)), level + 1,
                             first_valid_bit + SHIFT(level))
         ELSE LeftmostLadder(entry_inv \cap BASE(level), level + 1, first_valid_bit)

\* lines 353-390, from entry i - 1 downwards: [threw, max_offset]
RECURSIVE MaxOffsetScan(_, _, _, _)
MaxOffsetScan(al, mask, i, max_offset) ==
    IF i = 0 THEN [threw |-> TRUE, max_offset |-> 0]
    ELSE LET bits_in_last_entry == al.available_segments_per_buffer % BITS_PER_VALUE
             entry == IF i = al.bitmask_count
                      THEN mask[i - 1] \cup OnesShiftedLeft(bits_in_last_entry)
                      ELSE mask[i - 1]
         IN IF entry = Bits
            THEN MaxOffsetScan(al, mask, i - 1, max_offset - BITS_PER_VALUE)
            ELSE LET first_valid_bit == LeftmostLadder(Bits \ entry, 0, 0)
                 IN [threw |-> FALSE,
                     max_offset |-> max_offset - (BITS_PER_VALUE - first_valid_bit) + 1]

GetMaxOffset(al, mask) ==
    MaxOffsetScan(al, mask, al.bitmask_count, al.bitmask_count * BITS_PER_VALUE)

-----------------------------------------------------------------------------
(* FixedSizeAllocator::Serialize and Deserialize *)

\* PartialBlockManager: the block a buffer is written to is a new one
NextBlock(blocks) ==
    IF DOMAIN blocks = {} THEN INVALID_BLOCK + 1 ELSE SetMax(DOMAIN blocks) + 1

\* FixedSizeBuffer::Serialize(partial_block_manager, allocation_size): the
\* first allocation_size bytes of the buffer (the bitmask and the segments
\* that lie below that size) as they are written to the block
BlockImage(al, buffer, allocation_size) ==
    LET segments == (allocation_size - al.bitmask_offset) \div al.segment_size
    IN [mask |-> buffer.mask,
        data |-> [i \in DOMAIN buffer.data |->
                     IF i < segments THEN buffer.data[i] ELSE 0]]

\* lines 248-253 for the buffers of order[i..]: [al, blocks, fault]
RECURSIVE SerializeBuffers(_, _, _, _)
SerializeBuffers(al, order, i, blocks) ==
    IF i > Len(order) THEN [al |-> al, blocks |-> blocks, fault |-> "none"]
    ELSE LET id == order[i]
             buffer == Pin(al.buffers[id], blocks)
             max == GetMaxOffset(al, buffer.mask)
             allocation_size == max.max_offset * al.segment_size + al.bitmask_offset
             block_pointer == NextBlock(blocks)
             written == [buffer EXCEPT !.block_pointer = block_pointer,
                                       !.allocation_size = allocation_size]
         IN IF max.threw
            THEN [al |-> [al EXCEPT !.buffers[id] = buffer],
                  blocks |-> blocks, fault |-> "throw"]
            ELSE SerializeBuffers(
                     [al EXCEPT !.buffers[id] = written], order, i + 1,
                     [b \in DOMAIN blocks \cup {block_pointer} |->
                         IF b = block_pointer
                         THEN BlockImage(al, buffer, allocation_size)
                         ELSE blocks[b]])

\* lines 260-265: the directory entries of the buffers of order[i..]
RECURSIVE WriteBuffers(_, _, _)
WriteBuffers(al, order, i) ==
    IF i > Len(order) THEN << >>
    ELSE LET buffer == al.buffers[order[i]]
         IN <<order[i], buffer.block_pointer, buffer.segment_count,
              buffer.allocation_size>> \o WriteBuffers(al, order, i + 1)

\* lines 256-268: what the writer holds after Serialize, the buffers iterated
\* in the order `order` and buffers_with_free_space in the order `free_order`
WriteMetadata(al, order, free_order) ==
    <<al.segment_size, Cardinality(DOMAIN al.buffers),
      Cardinality(al.buffers_with_free_space)>>
    \o WriteBuffers(al, order, 1) \o free_order

\* Serialize: [al, blocks, stream, fault]
Serialize(al, order, free_order, blocks, old_stream) ==
    LET done == SerializeBuffers(al, order, 1, blocks)
    IN [al |-> done.al, blocks |-> done.blocks, fault |-> done.fault,
        stream |-> IF done.fault = "none"
                   THEN WriteMetadata(done.al, order, free_order)
                   ELSE old_stream]

\* ReadBuffers with segment_count and allocation_size read in the other order
RECURSIVE ReadBuffersSwapped(_, _, _, _)
ReadBuffersSwapped(al, reader, i, buffer_count) ==
    IF i > buffer_count THEN al
    ELSE LET at == 3 + 4 * (i - 1)
             new_buffer == RestoredBuffer(reader[at + 4], reader[at + 3], reader[at + 2])
         IN ReadBuffersSwapped(
                [al EXCEPT !.buffers = Insert(@, reader[at + 1], new_buffer),
                           !.total_segment_count = @ + reader[at + 4]],
                reader, i + 1, buffer_count)

\* lines 282-290: the buffers read from the directory entries i..buffer_count
RECURSIVE ReadBuffers(_, _, _, _)
ReadBuffers(al, reader, i, buffer_count) ==
    IF i > buffer_count THEN al
    ELSE LET at == 3 + 4 * (i - 1)
             buffer_id == reader[at + 1]
             buffer_block_pointer == reader[at + 2]
             segment_count == reader[at + 3]
             allocation_size == reader[at + 4]
             new_buffer == RestoredBuffer(segment_count, allocation_size,
                                          buffer_block_pointer)
         IN ReadBuffers(
                [al EXCEPT !.buffers = Insert(@, buffer_id, new_buffer),
                           !.total_segment_count = @ + segment_count],
                reader, i + 1, buffer_count)

Deserialize(al, reader) ==
    LET buffer_count == reader[2]
        buffers_with_free_space_count == reader[3]
        read == ReadBuffers([al EXCEPT !.segment_size = reader[1],
                                       !.total_segment_count = 0],
                            reader, 1, buffer_count)
    IN [read EXCEPT !.buffers_with_free_space =
           @ \cup {reader[3 + 4 * buffer_count + i] :
                      i \in 1 .. buffers_with_free_space_count}]

-----------------------------------------------------------------------------
(* The state of the model *)

Allocators == {"A", "B"}

Vals == 1 .. MaxVal

\* the segment size of the model's allocators
ModelSegmentSize == (BLOCK_SIZE - SIZEOF_VALIDITY) \div SlotsPerBuffer

\* pass[a]: whether InitializeVacuum has returned true and FinalizeVacuum has
\* not been called since and, for a caller that keeps a record, what
\* total_segment_count and the number of buffers were when the pass began, the
\* pointers still to rewrite, the number rewritten, and the pointers (with
\* their values) that it does not have to rewrite
NoPass ==
    [active |-> FALSE, total |-> 0, buffers |-> 0, todo |-> {}, moved |-> 0,
     kept |-> << >>]

NoArg == << >>

\* last: the operation, the allocator, the argument, the pointer or boolean
\* returned, whether it threw or ran into undefined behaviour, and whether the
\* pointer returned was one the caller already held
Returned(op, a, arg, ptr, ret, fault, dup) ==
    [op |-> op, a |-> a, arg |-> arg, ptr |-> ptr, ret |-> ret, fault |-> fault,
     dup |-> dup]

InitAllocators ==
    /\ alloc = [a \in Allocators |-> NewAllocator(ModelSegmentSize)]
    /\ owned = [a \in Allocators |-> << >>]
    /\ disk = << >>
    /\ stream = << >>
    /\ pass = [a \in Allocators |-> NoPass]
    /\ last = Returned("Construct", "A", NoArg, NoPointer, FALSE, "none", FALSE)

Init ==
    /\ ctor = Construct(ModelSegmentSize)
    /\ InitAllocators

InitCtor ==
    /\ ctor \in {CtorStart(segment_size) : segment_size \in CtorSizes}
    /\ InitAllocators

\* the program goes on: no operation has thrown or run into undefined behaviour
Running == last.fault = "none"

TotalBuffers ==
    Cardinality(DOMAIN alloc["A"].buffers) + Cardinality(DOMAIN alloc["B"].buffers)

\* total_segment_count is kept from growing above the number of segments of
\* MaxBuffers buffers (Merge adds to it and never takes from the other's)
MaxTotal == MaxBuffers * SlotsPerBuffer

\* the caller's pointers: f with ptr mapped to v
Put(f, ptr, v) == [p \in DOMAIN f \cup {ptr} |-> IF p = ptr THEN v ELSE f[p]]

\* f without the pointers of S
Drop(f, S) == [p \in DOMAIN f \ S |-> f[p]]

\* the caller stores v into the segment: Get(ptr) and a write of segment_size bytes
Store(al, ptr, v) == [al EXCEPT !.buffers[ptr[1]].data[ptr[2]] = v]

\* the caller's pointers into buffers that were flagged for the vacuum
InFlagged(al, f) == {p \in DOMAIN f : p[1] \in DOMAIN al.buffers /\ al.buffers[p[1]].vacuum}

-----------------------------------------------------------------------------
(* The operations as steps of the caller *)

\* New(), and the caller stores a value of vals into the new segment; not
\* taken when total_segment_count has reached max_total
NewStepUpTo(a, vals, max_total) ==
    /\ Running
    /\ \E buffer_id \in NewCandidates(alloc[a]), v \in vals :
         /\ alloc[a].buffers_with_free_space = {} => TotalBuffers < MaxBuffers
         /\ alloc[a].total_segment_count < max_total
         /\ LET r == New(alloc[a], buffer_id, disk)
            IN /\ alloc' = [alloc EXCEPT ![a] =
                              IF r.fault = "none" THEN Store(r.al, r.ptr, v) ELSE r.al]
               /\ owned' = IF r.fault = "none"
                           THEN [owned EXCEPT ![a] = Put(@, r.ptr, v)] ELSE owned
               /\ last' = Returned("New", a, NoArg, r.ptr, FALSE, r.fault,
                                   r.ptr \in DOMAIN owned[a])
    /\ UNCHANGED <<ctor, disk, stream, pass>>

NewStep(a, vals) == NewStepUpTo(a, vals, MaxTotal)

\* Free(ptr) of a pointer the caller holds
FreeStep(a) ==
    /\ Running
    /\ \E ptr \in DOMAIN owned[a] :
         /\ alloc' = [alloc EXCEPT ![a] = Free(@, ptr, disk)]
         /\ owned' = [owned EXCEPT ![a] = Drop(@, {ptr})]
         /\ pass' = [pass EXCEPT ![a].todo = @ \ {ptr}]
         /\ last' = Returned("Free", a, ptr, NoPointer, FALSE, "none", FALSE)
    /\ UNCHANGED <<ctor, disk, stream>>

\* the segments of the buffers in memory that are free
FreeRows(al) ==
    {p \in InMemoryIds(al) \X (0 .. (al.available_segments_per_buffer - 1)) :
        RowIsValid(al.buffers[p[1]].mask, p[2])}

\* every in-memory buffer counts the segments whose bit is clear
CountsExact(al) ==
    \A id \in InMemoryIds(al) :
        al.buffers[id].segment_count
            = Cardinality(ClearedRows(al.buffers[id].mask, al.available_segments_per_buffer))

\* Free(ptr) of a segment that is free already, the first time this happens,
\* in a build with or without the D_ASSERTs
DoubleFreeStep(a) ==
    /\ Running
    /\ CountsExact(alloc[a])
    /\ \E ptr \in FreeRows(alloc[a]), asserts \in BOOLEAN :
         LET r == FreeBuild(alloc[a], ptr, disk, asserts)
         IN /\ alloc' = [alloc EXCEPT ![a] = r.al]
            /\ last' = Returned("Free", a, ptr, NoPointer, FALSE, r.fault, FALSE)
    /\ UNCHANGED <<ctor, owned, disk, stream, pass>>

\* Reset(); the caller holds no pointer afterwards
ResetStep(a) ==
    /\ Running
    /\ alloc' = [alloc EXCEPT ![a] = Reset(@)]
    /\ owned' = [owned EXCEPT ![a] = << >>]
    /\ pass' = [pass EXCEPT ![a].todo = {}]
    /\ last' = Returned("Reset", a, NoArg, NoPointer, FALSE, "none", FALSE)
    /\ UNCHANGED <<ctor, disk, stream>>

\* a.Merge(other); the caller moves its pointers into other over to a.
\* last.arg is the set of the buffer ids that other held
MergeStep(a, other) ==
    /\ Running
    /\ a # other
    /\ alloc[a].segment_size = alloc[other].segment_size
    /\ TotalBuffers <= MaxBuffers
    /\ alloc[a].total_segment_count + alloc[other].total_segment_count <= MaxTotal
    /\ \A id \in DOMAIN alloc[other].buffers :
           id + GetUpperBoundBufferId(alloc[a]) <= MaxBufferId
    /\ LET upper_bound_id == GetUpperBoundBufferId(alloc[a])
           moved == [p \in {<<q[1] + upper_bound_id, q[2]>> : q \in DOMAIN owned[other]} |->
                        owned[other][<<p[1] - upper_bound_id, p[2]>>]]
       IN /\ alloc' = [alloc EXCEPT ![a] = MergeInto(alloc[a], alloc[other]),
                                    ![other] = MergeFrom(alloc[other])]
          /\ owned' = [owned EXCEPT
                         ![a] = [p \in DOMAIN owned[a] \cup DOMAIN moved |->
                                    IF p \in DOMAIN owned[a] THEN owned[a][p] ELSE moved[p]],
                         ![other] = << >>]
    /\ pass' = [pass EXCEPT ![other].todo = {}]
    /\ last' = Returned("Merge", a, DOMAIN alloc[other].buffers, NoPointer, FALSE, "none", FALSE)
    /\ UNCHANGED <<ctor, disk, stream>>

\* InitializeVacuum(); when it returns true a pass has begun, and a caller
\* that keeps a record notes total_segment_count, the number of buffers and
\* the pointers it has to rewrite
InitializeVacuumStep(a, record) ==
    /\ Running
    /\ \E order \in MultimapOrders(alloc[a]) :
         LET r == InitializeVacuum(alloc[a], order)
         IN /\ alloc' = [alloc EXCEPT ![a] = r.al]
            /\ owned' = [owned EXCEPT ![a] =
                           Drop(@, {p \in DOMAIN @ : p[1] \notin DOMAIN r.al.buffers})]
            /\ pass' = IF r.ret /\ record
                       THEN [pass EXCEPT ![a] =
                               [active |-> TRUE,
                                total |-> alloc[a].total_segment_count,
                                buffers |-> Cardinality(DOMAIN alloc[a].buffers),
                                todo |-> InFlagged(r.al, owned[a]),
                                moved |-> 0,
                                kept |-> Drop(owned[a], InFlagged(r.al, owned[a]))]]
                       ELSE IF r.ret
                       THEN [pass EXCEPT ![a] = [NoPass EXCEPT !.active = TRUE]]
                       ELSE pass
            /\ last' = Returned("InitializeVacuum", a, NoArg, NoPointer, r.ret, r.fault, FALSE)
    /\ UNCHANGED <<ctor, disk, stream>>

\* InitializeVacuum() in a build with or without the D_ASSERTs, also while
\* the pass before it has not been finalized
InitializeVacuumBuildStep(a) ==
    /\ Running
    /\ \E order \in MultimapOrders(alloc[a]), asserts \in BOOLEAN :
         LET r == InitializeVacuumBuild(alloc[a], order, asserts)
         IN /\ alloc' = [alloc EXCEPT ![a] = r.al]
            /\ owned' = [owned EXCEPT ![a] =
                           Drop(@, {p \in DOMAIN @ : p[1] \notin DOMAIN r.al.buffers})]
            /\ pass' = IF r.ret
                       THEN [pass EXCEPT ![a] = [NoPass EXCEPT !.active = TRUE]]
                       ELSE pass
            /\ last' = Returned("InitializeVacuum", a, NoArg, NoPointer, r.ret, r.fault, FALSE)
    /\ UNCHANGED <<ctor, disk, stream>>

\* VacuumPointer(ptr) for a pointer of the caller into a flagged buffer; the
\* caller replaces the pointer by the one returned
VacuumPointerStep(a) ==
    /\ Running
    /\ \E ptr \in InFlagged(alloc[a], owned[a]), buffer_id \in NewCandidates(alloc[a]) :
         /\ alloc[a].buffers_with_free_space = {} => TotalBuffers < MaxBuffers
         /\ LET r == VacuumPointer(alloc[a], ptr, buffer_id, disk)
            IN /\ alloc' = [alloc EXCEPT ![a] = r.al]
               /\ owned' = IF r.fault = "none"
                           THEN [owned EXCEPT ![a] = Put(Drop(@, {ptr}), r.ptr, @[ptr])]
                           ELSE owned
               /\ pass' = [pass EXCEPT ![a].todo = @ \ {ptr},
                                        ![a].moved = IF pass[a].todo = {} THEN @ ELSE @ + 1]
               /\ last' = Returned("VacuumPointer", a, ptr, r.ptr, FALSE, r.fault,
                                   r.ptr \in DOMAIN owned[a])
    /\ UNCHANGED <<ctor, disk, stream>>

\* FinalizeVacuum(); the caller's pointers into the destroyed buffers are gone.
\* last.arg is the caller's record of the pass that ends
FinalizeVacuumStep(a) ==
    /\ Running
    /\ LET r == FinalizeVacuum(alloc[a])
       IN /\ alloc' = [alloc EXCEPT ![a] = r.al]
          /\ owned' = [owned EXCEPT ![a] =
                         Drop(@, {p \in DOMAIN @ : p[1] \notin DOMAIN r.al.buffers})]
          /\ last' = Returned("FinalizeVacuum", a, pass[a], NoPointer, FALSE, r.fault, FALSE)
    /\ pass' = [pass EXCEPT ![a] = NoPass]
    /\ UNCHANGED <<ctor, disk, stream>>

\* Serialize(partial_block_manager, writer), the maps iterated in any order
SerializeStep(a) ==
    /\ Running
    /\ Cardinality(DOMAIN disk) + Cardinality(DOMAIN alloc[a].buffers) <= MaxBlocks
    /\ \E order \in Orders(DOMAIN alloc[a].buffers),
          free_order \in Orders(alloc[a].buffers_with_free_space) :
         LET r == Serialize(alloc[a], order, free_order, disk, stream)
         IN /\ alloc' = [alloc EXCEPT ![a] = r.al]
            /\ disk' = r.blocks
            /\ stream' = r.stream
            /\ last' = Returned("Serialize", a, NoArg, NoPointer, FALSE, r.fault, FALSE)
    /\ UNCHANGED <<ctor, owned, pass>>

\* Deserialize(block_pointer) into the allocator a, which was constructed and
\* not used since, of what the allocator `from` wrote; the caller's pointers
\* are those it held into `from`
DeserializeStep(a, from) ==
    /\ Running
    /\ a # from
    /\ stream # << >>
    /\ DOMAIN alloc[a].buffers = {}
    /\ alloc[a].buffers_with_free_space = {}
    /\ alloc[a].vacuum_buffers = {}
    /\ alloc[a].total_segment_count = 0
    /\ alloc' = [alloc EXCEPT ![a] = Deserialize(@, stream)]
    /\ owned' = [owned EXCEPT ![a] = owned[from]]
    /\ last' = Returned("Deserialize", a, NoArg, NoPointer, FALSE, "none", FALSE)
    /\ UNCHANGED <<ctor, disk, stream, pass>>

-----------------------------------------------------------------------------
(* The specifications *)

\* line 169: InitializeVacuum gets past its early return only with
\* vacuum_buffers empty
AnyOrderInitializeVacuum ==
    /\ alloc["A"].total_segment_count = 0 \/ alloc["A"].vacuum_buffers = {}
    /\ InitializeVacuumStep("A", FALSE)

\* every operation of one allocator, in any order
Next ==
    \/ NewStep("A", {0})
    \/ FreeStep("A")
    \/ ResetStep("A")
    \/ AnyOrderInitializeVacuum
    \/ VacuumPointerStep("A")
    \/ FinalizeVacuumStep("A")

Spec == Init /\ [][Next]_vars

\* two allocators that allocate, free, and merge into each other
NextMerge ==
    \E a \in Allocators :
        \/ NewStep(a, {0})
        \/ FreeStep(a)
        \/ \E other \in Allocators : MergeStep(a, other)

SpecMerge == Init /\ [][NextMerge]_vars

\* New and Free of one allocator
NextNewFree == NewStep("A", {0}) \/ FreeStep("A")

SpecNewFree == Init /\ [][NextNewFree]_vars

\* Vacuum passes that are carried out in full: between an InitializeVacuum
\* that returned true and FinalizeVacuum the caller only calls VacuumPointer,
\* once for every pointer it holds into a flagged buffer
PassNew == ~pass["A"].active /\ NewStep("A", Vals)

PassFree == ~pass["A"].active /\ FreeStep("A")

PassInitializeVacuum == ~pass["A"].active /\ InitializeVacuumStep("A", TRUE)

PassVacuumPointer == pass["A"].active /\ VacuumPointerStep("A")

PassFinalizeVacuum ==
    /\ pass["A"].active
    /\ InFlagged(alloc["A"], owned["A"]) = {}
    /\ FinalizeVacuumStep("A")

NextVacuum ==
    \/ PassNew
    \/ PassFree
    \/ PassInitializeVacuum
    \/ PassVacuumPointer
    \/ PassFinalizeVacuum

SpecVacuum == Init /\ [][NextVacuum]_vars

\* A allocates and frees and is then serialized; B is deserialized from what
\* A wrote, and segments of it are freed
WriterNew == stream = << >> /\ NewStep("A", {0})

WriterFree == stream = << >> /\ FreeStep("A")

WriterSerialize == stream = << >> /\ SerializeStep("A")

ReaderDeserialize == DeserializeStep("B", "A")

ReaderFree == FreeStep("B")

NextSerialize ==
    \/ WriterNew
    \/ WriterFree
    \/ WriterSerialize
    \/ ReaderDeserialize
    \/ ReaderFree

SpecSerialize == Init /\ [][NextSerialize]_vars

\* New and Free of one allocator whose caller frees a segment twice
NextDoubleFree == NewStep("A", {0}) \/ FreeStep("A") \/ DoubleFreeStep("A")

SpecDoubleFree == Init /\ [][NextDoubleFree]_vars

\* Vacuum passes that the caller may abandon: after an InitializeVacuum that
\* returned true it goes on with New and Free and calls InitializeVacuum
\* again; FinalizeVacuum ends a pass
AbandonNew == NewStep("A", {0})

AbandonFree == FreeStep("A")

AbandonInitializeVacuum == InitializeVacuumBuildStep("A")

AbandonFinalizeVacuum == pass["A"].active /\ FinalizeVacuumStep("A")

NextAbandon ==
    \/ AbandonNew
    \/ AbandonFree
    \/ AbandonInitializeVacuum
    \/ AbandonFinalizeVacuum

SpecAbandon == Init /\ [][NextAbandon]_vars

\* As SpecSerialize, with the reader B constructed for segments of another
\* size than those of the writer A
ReaderSegmentSize == (BLOCK_SIZE - SIZEOF_VALIDITY) \div (SlotsPerBuffer + 1)

InitMismatch ==
    /\ ctor = Construct(ModelSegmentSize)
    /\ alloc = [a \in Allocators |->
                  NewAllocator(IF a = "A" THEN ModelSegmentSize ELSE ReaderSegmentSize)]
    /\ owned = [a \in Allocators |-> << >>]
    /\ disk = << >>
    /\ stream = << >>
    /\ pass = [a \in Allocators |-> NoPass]
    /\ last = Returned("Construct", "A", NoArg, NoPointer, FALSE, "none", FALSE)

SpecMismatch == InitMismatch /\ [][NextSerialize]_vars

\* As SpecSerialize, with both allocators constructed for segments of more
\* than half a block: one segment per buffer and a second bitmask entry
WideSegmentSize == (BLOCK_SIZE \div 2) + SIZEOF_VALIDITY

InitWide ==
    /\ ctor = Construct(WideSegmentSize)
    /\ alloc = [a \in Allocators |-> NewAllocator(WideSegmentSize)]
    /\ owned = [a \in Allocators |-> << >>]
    /\ disk = << >>
    /\ stream = << >>
    /\ pass = [a \in Allocators |-> NoPass]
    /\ last = Returned("Construct", "A", NoArg, NoPointer, FALSE, "none", FALSE)

SpecWide == InitWide /\ [][NextSerialize]_vars

\* The scenario of the small segments: one allocator of segment size
\* ScenarioSegmentSize fills a buffer from offset 0 on; the caller frees one
\* segment while it holds the segments 0..n-1 and goes on allocating
ScenarioSegmentSize == 16

InitScenario ==
    /\ ctor = Construct(ScenarioSegmentSize)
    /\ alloc = [a \in Allocators |->
                  NewAllocator(IF a = "A" THEN ScenarioSegmentSize ELSE ModelSegmentSize)]
    /\ owned = [a \in Allocators |-> << >>]
    /\ disk = << >>
    /\ stream = << >>
    /\ pass = [a \in Allocators |-> NoPass]
    /\ last = Returned("Construct", "A", NoArg, NoPointer, FALSE, "none", FALSE)

\* the caller holds the segments 0..n-1 of buffer 0 and no other
HoldsPrefix(n) == DOMAIN owned["A"] = {<<0, i>> : i \in 0 .. (n - 1)}

ScenarioNew == NewStepUpTo("A", {0}, ScenarioSlots)

ScenarioFree ==
    /\ HoldsPrefix(Cardinality(DOMAIN owned["A"]))
    /\ FreeStep("A")

NextScenario == ScenarioNew \/ ScenarioFree

SpecScenario == InitScenario /\ [][NextScenario]_vars

\* the constructor, for every segment size
\* The writer A allocates and serializes, and the reader B goes on with what
\* it has read: it allocates, frees and, in a build with or without the D_ASSERTs, begins a
\* vacuum pass; its buffers stay on disk until one of these loads them
RestoredNew ==
    /\ DOMAIN alloc["B"].buffers # {}
    /\ ~pass["B"].active
    /\ NewStep("B", {0})

RestoredFree == ~pass["B"].active /\ FreeStep("B")

RestoredInitializeVacuum ==
    /\ DOMAIN alloc["B"].buffers # {}
    /\ ~pass["B"].active
    /\ InitializeVacuumBuildStep("B")

NextRestored ==
    \/ WriterNew
    \/ WriterSerialize
    \/ ReaderDeserialize
    \/ RestoredNew
    \/ RestoredFree
    \/ RestoredInitializeVacuum

SpecRestored == Init /\ [][NextRestored]_vars

\* Vacuum passes during which the caller goes on allocating and freeing:
\* between an InitializeVacuum that returned true and FinalizeVacuum it calls
\* New, Free (also of pointers into flagged buffers) and VacuumPointer in any
\* order, and it finalizes when every pointer it held into a flagged buffer
\* at the start of the pass has been rewritten or freed
WindowNew == NewStep("A", {0})

WindowFree == FreeStep("A")

WindowInitializeVacuum == ~pass["A"].active /\ InitializeVacuumStep("A", TRUE)

WindowVacuumPointer == pass["A"].active /\ VacuumPointerStep("A")

WindowFinalizeVacuum ==
    /\ pass["A"].active
    /\ pass["A"].todo = {}
    /\ FinalizeVacuumStep("A")

NextWindow ==
    \/ WindowNew
    \/ WindowFree
    \/ WindowInitializeVacuum
    \/ WindowVacuumPointer
    \/ WindowFinalizeVacuum

SpecWindow == Init /\ [][NextWindow]_vars

\* A caller that only allocates, from the empty allocator A constructed for
\* segments of FillSegmentSize bytes (FillWideSlots segments per buffer, in
\* two bitmask entries) or for segments of which 1, 2, ..., FillMaxSlots fit
\* into a buffer; it stops FillExtra segments after the first buffer is full
FillWideSlots == 70

FillSegmentSize == (BLOCK_SIZE - 2 * SIZEOF_VALIDITY) \div FillWideSlots

FillMaxSlots == 6

FillExtra == 6

FillSizes ==
    {FillSegmentSize}
        \cup {(BLOCK_SIZE - SIZEOF_VALIDITY) \div k : k \in 1 .. FillMaxSlots}

InitFill ==
    /\ \E segment_size \in FillSizes :
         /\ ctor = Construct(segment_size)
         /\ alloc = [a \in Allocators |->
                       NewAllocator(IF a = "A" THEN segment_size ELSE ModelSegmentSize)]
    /\ owned = [a \in Allocators |-> << >>]
    /\ disk = << >>
    /\ stream = << >>
    /\ pass = [a \in Allocators |-> NoPass]
    /\ last = Returned("Construct", "A", NoArg, NoPointer, FALSE, "none", FALSE)

FillNew ==
    NewStepUpTo("A", {0}, alloc["A"].available_segments_per_buffer + FillExtra)

SpecFill == InitFill /\ [][FillNew]_vars

\* One buffer of FillWideSlots segments (two bitmask entries): the caller
\* allocates until the buffer is full and frees segments at the ends of the
\* two bitmask entries, in any order
ChurnOffsets ==
    {0, 1, BITS_PER_VALUE - 1, BITS_PER_VALUE}
        \cup ((FillWideSlots - 3) .. (FillWideSlots - 1))

InitChurn ==
    /\ ctor = Construct(FillSegmentSize)
    /\ alloc = [a \in Allocators |->
                  NewAllocator(IF a = "A" THEN FillSegmentSize ELSE ModelSegmentSize)]
    /\ owned = [a \in Allocators |-> << >>]
    /\ disk = << >>
    /\ stream = << >>
    /\ pass = [a \in Allocators |-> NoPass]
    /\ last = Returned("Construct", "A", NoArg, NoPointer, FALSE, "none", FALSE)

ChurnNew ==
    NewStepUpTo("A", {0}, alloc["A"].available_segments_per_buffer)

ChurnFree == FreeStep("A") /\ last'.arg[2] \in ChurnOffsets

NextChurn == ChurnNew \/ ChurnFree

SpecChurn == InitChurn /\ [][NextChurn]_vars

\* An allocator whose buffers have any keys of 0..MaxKey, as Merge and the
\* vacuum leave them, all buffers full: every New that finds no buffer with
\* free space creates one
MaxKey == 6

FullBuffer(al) ==
    [FreshBuffer(al) EXCEPT
       !.segment_count = al.available_segments_per_buffer,
       !.mask = [e \in DOMAIN @ |-> {}]]

InitKeys ==
    /\ ctor = Construct(ModelSegmentSize)
    /\ \E keys \in SUBSET (0 .. MaxKey) :
         LET al == NewAllocator(ModelSegmentSize)
             rows == keys \X (0 .. (al.available_segments_per_buffer - 1))
         IN /\ alloc = [a \in Allocators |->
                          IF a = "A"
                          THEN [al EXCEPT
                                  !.buffers = [id \in keys |-> FullBuffer(al)],
                                  !.total_segment_count = Cardinality(rows)]
                          ELSE al]
            /\ owned = [a \in Allocators |->
                          IF a = "A" THEN [p \in rows |-> 0] ELSE << >>]
    /\ disk = << >>
    /\ stream = << >>
    /\ pass = [a \in Allocators |-> NoPass]
    /\ last = Returned("Construct", "A", NoArg, NoPointer, FALSE, "none", FALSE)

KeysNew ==
    /\ Running
    /\ Cardinality(DOMAIN alloc["A"].buffers) <= MaxKey
    /\ \E buffer_id \in NewCandidates(alloc["A"]) :
         LET r == New(alloc["A"], buffer_id, disk)
         IN /\ alloc' = [alloc EXCEPT !["A"] = r.al]
            /\ owned' = IF r.fault = "none"
                        THEN [owned EXCEPT !["A"] = Put(@, r.ptr, 0)] ELSE owned
            /\ last' = Returned("New", "A", NoArg, r.ptr, FALSE, r.fault,
                                r.ptr \in DOMAIN owned["A"])
    /\ UNCHANGED <<ctor, disk, stream, pass>>

SpecKeys == InitKeys /\ [][KeysNew]_vars

NextCtor == CtorCheck \/ CtorLoop \/ CtorFinish

SpecCtor == InitCtor /\ [][NextCtor]_vars

-----------------------------------------------------------------------------
(* The properties *)

A == alloc["A"]
B == alloc["B"]

\* the segments of the in-memory buffers whose bit is clear, as pointers
AllocatedRows(al) ==
    {p \in InMemoryIds(al) \X (0 .. (al.available_segments_per_buffer - 1)) :
        ~RowIsValid(al.buffers[p[1]].mask, p[2])}

\* the buffers that are not full
NonFull(al) ==
    {id \in DOMAIN al.buffers :
        al.buffers[id].segment_count < al.available_segments_per_buffer}

\* C1: after any sequence of New and Free (of pointers the caller holds),
\* every pointer the caller holds has a buffer id that is a key of buffers and
\* an offset below available_segments_per_buffer, and the pointer New returned
\* is none the caller already held.
C1_LivePointersValid ==
    /\ \A p \in DOMAIN owned["A"] :
          /\ p[1] \in DOMAIN A.buffers
          /\ p[2] >= 0
          /\ p[2] < A.available_segments_per_buffer
    /\ (last.op = "New" /\ last.fault = "none") =>
          (~last.dup /\ last.ptr \in DOMAIN owned["A"])

\* New has taken a segment that was freed before, below a live one of its buffer
C1_Witness ==
    /\ last.op = "New" /\ last.fault = "none"
    /\ Cardinality(DOMAIN owned["A"]) >= 3
    /\ \E q \in DOMAIN owned["A"] : q[1] = last.ptr[1] /\ q[2] > last.ptr[2]

\* C2: after any sequence of New and Free, buffers_with_free_space holds
\* exactly the ids of the buffers with segment_count below
\* available_segments_per_buffer.
C2_FreeSpaceExact == A.buffers_with_free_space = NonFull(A)

\* a segment of a full buffer has been freed while another buffer is full
C2_Witness ==
    /\ last.op = "Free"
    /\ last.arg[1] \in A.buffers_with_free_space
    /\ A.buffers[last.arg[1]].segment_count = A.available_segments_per_buffer - 1
    /\ \E id \in DOMAIN A.buffers :
          /\ A.buffers[id].segment_count = A.available_segments_per_buffer
          /\ id \notin A.buffers_with_free_space

\* the cleared bits of every in-memory buffer are as many as its segment_count
C4_Count ==
    \A id \in InMemoryIds(A) :
        Cardinality(ClearedRows(A.buffers[id].mask, A.available_segments_per_buffer))
            = A.buffers[id].segment_count

\* New clears the bit of the pointer it returns, which was set, and no other;
\* Free sets the bit of its pointer, which was clear, and no other
C4_Step ==
    /\ (last'.op = "New" /\ last'.fault = "none") =>
          /\ last'.ptr \notin AllocatedRows(A)
          /\ AllocatedRows(A)' = AllocatedRows(A) \cup {last'.ptr}
    /\ last'.op = "Free" =>
          /\ last'.arg \in AllocatedRows(A)
          /\ AllocatedRows(A)' = AllocatedRows(A) \ {last'.arg}

\* C4: in every reachable state the number of cleared bits among the bits
\* 0..available_segments_per_buffer-1 of every in-memory buffer equals its
\* segment_count; New clears exactly one bit that was set and Free sets
\* exactly one bit that was clear.
C4_BitmapCounts == []C4_Count /\ [][C4_Step]_vars

\* a buffer holds a free segment below an allocated one after a Free
C4_Witness ==
    /\ last.op = "Free"
    /\ \E id \in InMemoryIds(A) :
          /\ A.buffers[id].segment_count = 1
          /\ RowIsValid(A.buffers[id].mask, 0)
          /\ ~RowIsValid(A.buffers[id].mask, 1)

Other(a) == CHOOSE o \in Allocators : o # a

SegmentCounts(al) == [id \in DOMAIN al.buffers |-> al.buffers[id].segment_count]

\* C3: in every reachable state, of the allocator merged into and of the one
\* merged from alike, total_segment_count is the sum of segment_count over
\* the buffers in buffers.
C3_TotalIsSum ==
    \A a \in Allocators :
        alloc[a].total_segment_count
            = SumOver(SegmentCounts(alloc[a]), DOMAIN alloc[a].buffers)

\* C5: a complete vacuum pass leaves total_segment_count as it was when the
\* pass began and does not increase the number of buffers; VacuumPointer
\* returns a pointer the caller does not hold, outside the flagged buffers,
\* to a segment with the contents of the one it replaces; after
\* FinalizeVacuum the caller holds as many pointers as before, each into a
\* buffer that exists, to an allocated segment with the value stored, and the
\* pointers into unflagged buffers are the ones it held.
C5_CompletePass ==
    /\ last.op = "VacuumPointer" =>
          /\ last.fault = "none"
          /\ ~last.dup
          /\ last.ptr[1] \notin A.vacuum_buffers
          /\ last.ptr \in DOMAIN owned["A"]
          /\ A.buffers[last.ptr[1]].data[last.ptr[2]] = owned["A"][last.ptr]
          /\ A.buffers[last.ptr[1]].data[last.ptr[2]]
                = A.buffers[last.arg[1]].data[last.arg[2]]
    /\ last.op = "FinalizeVacuum" =>
          /\ last.fault = "none"
          /\ A.total_segment_count = last.arg.total
          /\ Cardinality(DOMAIN A.buffers) <= last.arg.buffers
          /\ Cardinality(DOMAIN owned["A"]) = last.arg.total
          /\ \A p \in DOMAIN owned["A"] :
                /\ p[1] \in DOMAIN A.buffers
                /\ ~RowIsValid(A.buffers[p[1]].mask, p[2])
                /\ A.buffers[p[1]].data[p[2]] = owned["A"][p]
          /\ \A p \in DOMAIN last.arg.kept :
                p \in DOMAIN owned["A"] /\ owned["A"][p] = last.arg.kept[p]

\* a pass has ended that rewrote a pointer, kept another and destroyed a buffer
C5_Witness ==
    /\ last.op = "FinalizeVacuum"
    /\ last.arg.moved >= 1
    /\ DOMAIN last.arg.kept # {}
    /\ Cardinality(DOMAIN A.buffers) < last.arg.buffers
    /\ {owned["A"][p] : p \in DOMAIN owned["A"]} = Vals

\* C6: vacuum_buffers is a subset of the keys of buffers, and it is empty
\* unless InitializeVacuum has returned true and FinalizeVacuum has not been
\* called since.
C6_VacuumBuffers ==
    /\ A.vacuum_buffers \subseteq DOMAIN A.buffers
    /\ ~pass["A"].active => A.vacuum_buffers = {}

\* C7: Deserialize into a freshly constructed allocator of what Serialize
\* wrote gives the segment_size, the total_segment_count, the
\* buffers_with_free_space, the buffer ids and, for every buffer, the
\* segment_count, block pointer and allocation_size of the serialized one.
C7_RoundTrip ==
    last.op = "Deserialize" =>
        /\ B.segment_size = A.segment_size
        /\ B.total_segment_count = A.total_segment_count
        /\ B.buffers_with_free_space = A.buffers_with_free_space
        /\ DOMAIN B.buffers = DOMAIN A.buffers
        /\ \A id \in DOMAIN A.buffers :
              /\ B.buffers[id].segment_count = A.buffers[id].segment_count
              /\ B.buffers[id].block_pointer = A.buffers[id].block_pointer
              /\ B.buffers[id].allocation_size = A.buffers[id].allocation_size

\* an allocator with a full buffer and one with free space has been deserialized
C7_Witness ==
    /\ last.op = "Deserialize"
    /\ Cardinality(DOMAIN B.buffers) >= 2
    /\ B.buffers_with_free_space # {}
    /\ B.buffers_with_free_space # DOMAIN B.buffers
    /\ B.total_segment_count >= 3

\* 1 + the largest key of buffers, 0 if there is none
UpperOf(al) == IF DOMAIN al.buffers = {} THEN 0 ELSE 1 + SetMax(DOMAIN al.buffers)

C8_Step ==
    last'.op = "Merge" =>
        LET a == last'.a
            other == Other(a)
            upper == UpperOf(alloc[a])
        IN /\ \A i \in DOMAIN alloc[other].buffers :
                 /\ i + upper \notin DOMAIN alloc[a].buffers
                 /\ i + upper \in DOMAIN alloc'[a].buffers
                 /\ alloc'[a].buffers[i + upper] = alloc[other].buffers[i]
           /\ \A k \in DOMAIN alloc[a].buffers :
                 /\ k \in DOMAIN alloc'[a].buffers
                 /\ alloc'[a].buffers[k] = alloc[a].buffers[k]
           /\ Cardinality(DOMAIN alloc'[a].buffers)
                 = Cardinality(DOMAIN alloc[a].buffers)
                   + Cardinality(DOMAIN alloc[other].buffers)
           /\ \A i \in alloc[other].buffers_with_free_space :
                 i + upper \in alloc'[a].buffers_with_free_space
           /\ alloc'[a].total_segment_count
                 = alloc[a].total_segment_count + alloc[other].total_segment_count

\* C8: a.Merge(other) with upper = 1 + the largest key of a.buffers (0 if a
\* has none): every buffer i of other is in a under i + upper, unchanged; no
\* buffer of a is replaced or changed; every id i of
\* other.buffers_with_free_space is in a.buffers_with_free_space as i + upper;
\* a.total_segment_count is the sum of the two counts.
C8_MergeMovesBuffers == [][C8_Step]_vars

\* a Merge has moved buffers, one of them with free space, into an allocator
\* that had buffers
C8_Witness ==
    /\ last.op = "Merge"
    /\ last.arg # {}
    /\ Cardinality(DOMAIN alloc[last.a].buffers) > Cardinality(last.arg)
    /\ \E id \in alloc[last.a].buffers_with_free_space :
          id >= Cardinality(DOMAIN alloc[last.a].buffers) - Cardinality(last.arg)
    /\ alloc[last.a].total_segment_count >= 3

C9_Emptied ==
    last.op = "Merge" =>
        /\ DOMAIN alloc[Other(last.a)].buffers = {}
        /\ alloc[Other(last.a)].buffers_with_free_space = {}
        /\ alloc[Other(last.a)].total_segment_count = 0

C9_Step ==
    (last.op = "Merge" /\ last'.op = "New" /\ last'.a = Other(last.a)) =>
        /\ last'.ptr = <<0, 0>>
        /\ alloc'[last'.a].total_segment_count = 1

\* C9: after a.Merge(other), other.buffers and other.buffers_with_free_space
\* are empty and other.total_segment_count is 0, and a New of other that
\* follows returns offset 0 of buffer 0 and leaves other.total_segment_count 1.
C9_OtherReusable == []C9_Emptied /\ [][C9_Step]_vars

\* whether avail segments of this size and their bitmask fit into a block
Fits(avail, segment_size) ==
    ((avail + BITS_PER_VALUE - 1) \div BITS_PER_VALUE) * SIZEOF_VALIDITY
        + avail * segment_size <= BLOCK_SIZE

\* C10: for every segment size of 1..BLOCK_SIZE - 8 the constructor ends with
\* available_segments_per_buffer the largest avail with
\* ceil(avail / 64) * 8 + avail * segment_size <= BLOCK_SIZE (the left side
\* grows with avail, so it is the avail that fits and whose successor does not).
C10_MaximalSegments ==
    (ctor.pc = "done" /\ ctor.segment_size <= BLOCK_SIZE - SIZEOF_VALIDITY) =>
        /\ Fits(ctor.available_segments_per_buffer, ctor.segment_size)
        /\ ~Fits(ctor.available_segments_per_buffer + 1, ctor.segment_size)

\* C11: once the size check has run, the constructor has thrown exactly when
\* segment_size > BLOCK_SIZE - 8, and for segment_size = BLOCK_SIZE - 8 it
\* ends with available_segments_per_buffer = 1 and bitmask_count = 1.
C11_SizeCheck ==
    /\ ctor.pc # "start" =>
          (ctor.pc = "throw" <=> ctor.segment_size > BLOCK_SIZE - SIZEOF_VALIDITY)
    /\ (ctor.pc = "done" /\ ctor.segment_size = BLOCK_SIZE - SIZEOF_VALIDITY) =>
          /\ ctor.available_segments_per_buffer = 1
          /\ ctor.bitmask_count = 1

\* the constructor has thrown for segment_size = BLOCK_SIZE
C11_Witness == ctor.pc = "throw" /\ ctor.segment_size = BLOCK_SIZE

\* the caller held the segments 0..9 of buffer 0 and has freed the one at 4
FreedFour ==
    /\ last.op = "Free" /\ last.arg = <<0, 4>>
    /\ DOMAIN owned["A"] = {<<0, i>> : i \in (0 .. 9) \ {4}}

\* the New after that Free has returned offset 4
RefilledFour ==
    /\ last.op = "New" /\ last.ptr = <<0, 4>>
    /\ HoldsPrefix(10)

C12_Step ==
    /\ (FreedFour /\ last'.op = "New") => last'.ptr = <<0, 4>>
    /\ (RefilledFour /\ last'.op = "New") => last'.ptr = <<0, 10>>

\* C12 (amended): with segment_size 16, after 10 allocations from an empty
\* allocator (offsets 0..9 of buffer 0) and the Free of the pointer with
\* offset 4, the next New returns offset 4 (segment_count is 9 and bit 9 is
\* not free, so the bitmask is scanned) and the New after that returns
\* offset 10 (the fast path).
C12_FreedSlotFirst == [][C12_Step]_vars

\* the New after the Free of offset 4 has acted
C12_Witness == RefilledFour /\ A.segment_size = 16

\* the New after that Free has acted, whatever it returned
AfterNextNew ==
    /\ last.op = "New" /\ last.ptr \notin {<<0, i>> : i \in (0 .. 9) \ {4}}
    /\ Cardinality(DOMAIN owned["A"]) = 10
    /\ {<<0, i>> : i \in (0 .. 9) \ {4}} \subseteq DOMAIN owned["A"]

C12_StepAsStated ==
    /\ (FreedFour /\ last'.op = "New") => last'.ptr = <<0, 10>>
    /\ (AfterNextNew /\ last'.op = "New") => last'.ptr = <<0, 4>>

\* C12 as stated: after the Free of offset 4 the next New returns offset 10
\* and the New after that returns offset 4.
C12_AsStated == [][C12_StepAsStated]_vars

C13_Step ==
    (last'.op = "Free" /\ last'.arg \in FreeRows(A)) =>
        /\ last'.fault # "none"
        /\ A'.total_segment_count = A.total_segment_count
        /\ A'.buffers[last'.arg[1]].segment_count = A.buffers[last'.arg[1]].segment_count
        /\ A'.buffers[last'.arg[1]].mask = A.buffers[last'.arg[1]].mask

\* C13: Free of a pointer whose segment is free already (its bit is set)
\* fails with an internal error and leaves total_segment_count, the buffer's
\* segment_count and the bitmask as they were.
C13_DoubleFreeFails == [][C13_Step]_vars

\* the buffers whose vacuum flag is set
Flagged(al) == {id \in DOMAIN al.buffers : al.buffers[id].vacuum}

C14_Step ==
    /\ last'.op \in {"New", "Free", "InitializeVacuum", "FinalizeVacuum"} =>
          last'.fault = "none"
    /\ (last'.op = "New" /\ A.buffers_with_free_space # {}) =>
          last'.ptr[1] \in DOMAIN A.buffers
    /\ last'.op = "InitializeVacuum" =>
          Flagged(A') = (IF last'.ret THEN A'.vacuum_buffers ELSE {})
    /\ last'.op = "FinalizeVacuum" =>
          (DOMAIN A.buffers \ DOMAIN A'.buffers) \subseteq Flagged(A)

\* C14: when a pass is abandoned after InitializeVacuum returned true, New
\* and Free go on working on the existing buffers, the next InitializeVacuum
\* succeeds and leaves flagged only the buffers it selected, and the
\* FinalizeVacuum that follows destroys only buffers that are flagged.
C14_AbandonedPass == [][C14_Step]_vars

\* C15: after Deserialize, bitmask_count, bitmask_offset and
\* available_segments_per_buffer are what the constructor computes for the
\* segment_size that was read, also in an allocator that was constructed
\* with another segment_size.
C15_Recomputed ==
    last.op = "Deserialize" =>
        /\ B.bitmask_count = Construct(B.segment_size).bitmask_count
        /\ B.bitmask_offset = Construct(B.segment_size).bitmask_offset
        /\ B.available_segments_per_buffer
              = Construct(B.segment_size).available_segments_per_buffer

\* C16: after Reset, called in any state, buffers, buffers_with_free_space
\* and vacuum_buffers are empty and total_segment_count is 0.
C16_ResetClears ==
    last.op = "Reset" =>
        /\ DOMAIN A.buffers = {}
        /\ A.buffers_with_free_space = {}
        /\ A.vacuum_buffers = {}
        /\ A.total_segment_count = 0

C17_Step ==
    /\ last'.op = "Serialize" =>
          (last'.fault = "throw"
              <=> \E id \in DOMAIN A.buffers : A.buffers[id].segment_count = 0)
    /\ last'.op = "Free" => last'.arg[1] \in DOMAIN alloc'[last'.a].buffers

\* C17: Serialize throws the internal error of the empty buffer exactly when
\* some buffer of buffers has segment_count = 0, and a Free leaves the buffer
\* of its pointer in buffers, also when that was its last segment.
C17_EmptyBufferThrows == [][C17_Step]_vars

\* a New of A that has not failed returns the pointer ptr
NewReturns(ptr) == last'.op = "New" /\ last'.fault = "none" /\ last'.ptr = ptr

C18_Step ==
    last'.op = "New" =>
        LET n == A.total_segment_count
            avail == A.available_segments_per_buffer
        IN /\ n < avail => NewReturns(<<0, n>>) /\ DOMAIN alloc'["A"].buffers = {0}
           /\ n = avail =>
                 /\ NewReturns(<<1, 0>>)
                 /\ DOMAIN A.buffers = {0}
                 /\ DOMAIN alloc'["A"].buffers = {0, 1}

\* buffer 0 is full, buffer 1 holds 5 segments and is the only one with room
FilledPlusFive ==
    /\ DOMAIN A.buffers = {0, 1}
    /\ A.buffers[0].segment_count = A.available_segments_per_buffer
    /\ A.buffers[1].segment_count = 5
    /\ A.buffers_with_free_space = {1}

\* C18: from an empty allocator with more than 5 segments per buffer, the
\* first available_segments_per_buffer calls of New return the offsets
\* 0, 1, 2, ... of buffer 0, the next New creates buffer 1 and returns its
\* offset 0, and after available_segments_per_buffer + 5 allocations buffer 0
\* is full, buffer 1 holds 5 segments and buffers_with_free_space = {1}.
C18_FillsInOrder ==
    /\ [](A.available_segments_per_buffer > 5
            /\ A.total_segment_count = A.available_segments_per_buffer + 5
          => FilledPlusFive)
    /\ [][C18_Step]_vars

C18_Witness ==
    /\ A.segment_size = FillSegmentSize
    /\ A.total_segment_count = A.available_segments_per_buffer + 5
    /\ FilledPlusFive
    /\ last.op = "New" /\ last.ptr = <<1, 4>>

\* C18 as stated, for any number of segments per buffer
C18_AsStated ==
    /\ [](A.total_segment_count = A.available_segments_per_buffer + 5
          => FilledPlusFive)
    /\ [][C18_Step]_vars

\* the free segments of a buffer, and the number of whole buffers that the
\* free segments of the buffers in memory add up to
FreeSlots(al, id) == al.available_segments_per_buffer - al.buffers[id].segment_count

ExcessOf(al) ==
    LET ids == {id \in DOMAIN al.buffers : al.buffers[id].in_memory}
    IN SumOver([id \in ids |-> FreeSlots(al, id)], ids)
           \div al.available_segments_per_buffer

C19_Step ==
    last'.op = "InitializeVacuum" /\ last'.ret =>
        LET after == alloc'["A"]
        IN /\ Cardinality(after.vacuum_buffers) = ExcessOf(A)
           /\ \A id \in after.vacuum_buffers :
                 /\ id \in DOMAIN after.buffers
                 /\ after.buffers[id].in_memory
                 /\ after.buffers[id].vacuum
                 /\ id \notin after.buffers_with_free_space
           /\ \A f, u \in DOMAIN after.buffers :
                 (/\ after.buffers[f].vacuum
                  /\ ~after.buffers[u].vacuum /\ after.buffers[u].in_memory)
                     => FreeSlots(after, f) >= FreeSlots(after, u)

\* C19: when InitializeVacuum returns true, vacuum_buffers has exactly
\* excess_buffer_count members, each an in-memory buffer of buffers that is
\* flagged and no longer in buffers_with_free_space, and no unflagged
\* in-memory buffer has more free segments than a flagged one.
C19_EmptiestFlagged == [][C19_Step]_vars

\* the buffers of an allocator that are in memory
Loaded(al) == {id \in DOMAIN al.buffers : al.buffers[id].in_memory}

\* every buffer is in memory and a tenth of its segments are allocated
TenthLive(al) ==
    \A id \in DOMAIN al.buffers :
        /\ al.buffers[id].in_memory
        /\ al.buffers[id].segment_count * 10 = al.available_segments_per_buffer

C20_Step ==
    last'.op = "InitializeVacuum" =>
        LET before == alloc[last'.a]
            after == alloc'[last'.a]
            returned == last'.fault = "none" /\ last'.ret
        IN /\ returned <=>
                 /\ before.total_segment_count > 0
                 /\ Loaded(before) # {}
                 /\ ExcessOf(before) * 100
                       >= VACUUM_THRESHOLD * Cardinality(Loaded(before))
           /\ ExcessOf(before) = 0 => ~returned
           /\ Cardinality(DOMAIN before.buffers) = 2 /\ TenthLive(before)
                 /\ VACUUM_THRESHOLD = 10
                 => returned /\ Cardinality(Flagged(after)) = 1

\* C20: InitializeVacuum returns true exactly when total_segment_count > 0,
\* some buffer is in memory and excess_buffer_count * 100 >=
\* VACUUM_THRESHOLD * the number of buffers in memory; two in-memory buffers
\* that are each 10% live give true with one buffer flagged, and
\* excess_buffer_count = 0 gives false.
C20_ReturnsTrue == [][C20_Step]_vars

\* the least member of a non-empty set of numbers
Least(S) == CHOOSE x \in S : \A y \in S : x <= y

\* the free offsets of a bitmask: the positions of its set bits
FreeOffsets(mask) ==
    {e * BITS_PER_VALUE + b : e \in DOMAIN mask, b \in Bits} \cap
        {i \in 0 .. (Cardinality(DOMAIN mask) * BITS_PER_VALUE - 1) :
            RowIsValid(mask, i)}

\* the ladder finds the least significant set bit of every non-zero entry of
\* every bitmask in memory
C21_Ladder ==
    \A id \in DOMAIN A.buffers :
        A.buffers[id].in_memory =>
            \A e \in DOMAIN A.buffers[id].mask :
                A.buffers[id].mask[e] # {} =>
                    RightmostLadder(A.buffers[id].mask[e], 0, 0)
                        = Least(A.buffers[id].mask[e])

C21_Step ==
    last'.op = "New" /\ last'.fault = "none" =>
        LET id == last'.ptr[1]
            fresh == id \notin DOMAIN A.buffers
            mask == IF fresh THEN FreshBuffer(A).mask ELSE A.buffers[id].mask
            segment_count == IF fresh THEN 0 ELSE A.buffers[id].segment_count
        IN /\ RowIsValid(mask, segment_count) => last'.ptr[2] = segment_count
           /\ ~RowIsValid(mask, segment_count) =>
                 last'.ptr[2] = Least(FreeOffsets(mask))

\* C21: New takes the offset segment_count when the bit segment_count of the
\* bitmask is set, also when a lower offset is free, and otherwise the lowest
\* free offset of the buffer; the 6-level ladder gives the least significant
\* set bit of every non-zero bitmask entry.
C21_OffsetTaken == []C21_Ladder /\ [][C21_Step]_vars

\* New has searched the bitmask and taken an offset of the second entry
\* while a higher offset was free as well
C21_Witness ==
    /\ last.op = "New" /\ last.fault = "none"
    /\ last.ptr[2] >= BITS_PER_VALUE
    /\ last.ptr[2] # A.buffers[last.ptr[1]].segment_count - 1
    /\ \E i \in FreeOffsets(A.buffers[last.ptr[1]].mask) : i > last.ptr[2]

\* the allocated offsets of an in-memory buffer: the clear bits below
\* available_segments_per_buffer
AllocatedOffsets(al, id) ==
    {i \in 0 .. (al.available_segments_per_buffer - 1) :
        ~RowIsValid(al.buffers[id].mask, i)}

C22_Step ==
    last'.op = "Serialize" /\ last'.fault = "none" =>
        \A id \in DOMAIN A.buffers :
            A.buffers[id].in_memory /\ AllocatedOffsets(A, id) # {} =>
                alloc'["A"].buffers[id].allocation_size
                    = (1 + SetMax(AllocatedOffsets(A, id))) * A.segment_size
                          + A.bitmask_offset

\* C22: for every buffer with an allocated segment GetMaxOffset is 1 + the
\* largest allocated offset, so that Serialize records the allocation_size
\* (1 + largest allocated offset) * segment_size + bitmask_offset.
C22_MaxOffset == [][C22_Step]_vars

\* the smallest non-negative integer that is not a key of buffers
SmallestUnused(al) ==
    Least({i \in 0 .. Cardinality(DOMAIN al.buffers) : i \notin DOMAIN al.buffers})

C23_Step ==
    last'.op \in {"New", "VacuumPointer"} =>
        \A id \in DOMAIN alloc'["A"].buffers \ DOMAIN A.buffers :
            id = SmallestUnused(A)

\* C23: the id GetAvailableBufferId gives to a new buffer is the smallest
\* non-negative integer that is not a key of buffers, whatever keys New,
\* Merge and the vacuum have left.
C23_SmallestId == [][C23_Step]_vars

C24_Step ==
    last'.op = "InitializeVacuum" =>
        LET before == alloc[last'.a]
            after == alloc'[last'.a]
        IN before.total_segment_count > 0 /\ Loaded(before) # {} =>
              /\ ExcessOf(before) < Cardinality(Loaded(before))
              /\ last'.fault # "assert"
              /\ \E id \in Loaded(after) : ~after.buffers[id].vacuum

\* C24: when InitializeVacuum gets past its early returns,
\* excess_buffer_count is less than the number of buffers in memory: the
\* assertion of line 189 holds and a buffer in memory is left unflagged, also
\* when live segments are in buffers that are not in memory.
C24_ExcessBelowSize == [][C24_Step]_vars

C25_Step ==
    /\ pass["A"].active /\ last'.op \in {"New", "VacuumPointer"}
          /\ last'.fault = "none"
          => last'.ptr[1] \notin A.vacuum_buffers
    /\ last'.op = "FinalizeVacuum" =>
          \A ptr \in DOMAIN owned["A"] :
              ptr \in DOMAIN pass["A"].kept \/ ptr \in DOMAIN owned'["A"]

\* C25: between an InitializeVacuum that returned true and the following
\* FinalizeVacuum no pointer that New or VacuumPointer returns lies in a
\* buffer of vacuum_buffers, whatever the caller frees in between, and
\* FinalizeVacuum destroys no segment that was allocated during the pass.
C25_NoPointerIntoFlagged == [][C25_Step]_vars

\* C26: every id of buffers_with_free_space is a key of buffers, and New
\* never looks up a buffer that is not there.
C26_FreeSpaceIsKey ==
    /\ A.buffers_with_free_space \subseteq DOMAIN A.buffers
    /\ ~(last.op \in {"New", "VacuumPointer"} /\ last.fault = "ub")

\* C27: for every segment size of 1..BLOCK_SIZE - 8 the layout of the
\* constructor fits into a block (bitmask_count * 8 +
\* available_segments_per_buffer * segment_size <= BLOCK_SIZE) with
\* 1 <= available_segments_per_buffer <= 64 * bitmask_count, and in no round
\* of the loop is byte_count above BLOCK_SIZE when remaining_bytes =
\* BLOCK_SIZE - byte_count is computed.
C27_LayoutFits ==
    ctor.segment_size <= BLOCK_SIZE - SIZEOF_VALIDITY =>
        /\ ctor.pc = "done" =>
              /\ ctor.bitmask_count * SIZEOF_VALIDITY
                    + ctor.available_segments_per_buffer * ctor.segment_size
                        <= BLOCK_SIZE
              /\ 1 <= ctor.available_segments_per_buffer
              /\ ctor.available_segments_per_buffer
                    <= BITS_PER_VALUE * ctor.bitmask_count
        /\ ctor.pc = "loop" /\ ctor.byte_count < BLOCK_SIZE =>
              (IF CtorGrowsBitmask(ctor)
               THEN ctor.byte_count + SIZEOF_VALIDITY
               ELSE ctor.byte_count) <= BLOCK_SIZE

\* during a pass the unflagged buffers of buffers_with_free_space have room
\* for the segments that the caller still holds in flagged buffers
C28_Room ==
    pass["A"].active =>
        /\ A.buffers_with_free_space \subseteq DOMAIN A.buffers \ Flagged(A)
        /\ SumOver([id \in A.buffers_with_free_space |-> FreeSlots(A, id)],
                   A.buffers_with_free_space)
              >= Cardinality(InFlagged(A, owned["A"]))

C28_Step ==
    /\ last'.op = "VacuumPointer" =>
          /\ last'.fault = "none"
          /\ DOMAIN alloc'["A"].buffers = DOMAIN A.buffers
          /\ last'.ptr[1] \notin A.vacuum_buffers
    /\ last'.op = "FinalizeVacuum" =>
          /\ Cardinality(Flagged(A)) >= 1
          /\ Cardinality(DOMAIN alloc'["A"].buffers)
                = pass["A"].buffers - Cardinality(Flagged(A))

\* C28: in a pass in which the caller only calls VacuumPointer, once for
\* every pointer it holds into a flagged buffer, no VacuumPointer creates a
\* buffer: the segments move into unflagged buffers, and FinalizeVacuum
\* leaves as many buffers fewer as were flagged, at least one.
C28_PassShrinks == []C28_Room /\ [][C28_Step]_vars

\* a pass that moved a segment has been finalized and has left a buffer
C28_Witness ==
    /\ last.op = "FinalizeVacuum"
    /\ last.arg.moved >= 1
    /\ DOMAIN A.buffers # {}
    /\ Cardinality(DOMAIN A.buffers) < last.arg.buffers

C29_Step ==
    last'.op = "New" /\ A.buffers_with_free_space = {} =>
        LET id == last'.ptr[1]
        IN /\ last'.fault = "none"
           /\ id \notin DOMAIN A.buffers
           /\ 0 <= id /\ id <= Cardinality(DOMAIN A.buffers)
           /\ DOMAIN alloc'["A"].buffers = DOMAIN A.buffers \cup {id}
           /\ \A k \in DOMAIN A.buffers : alloc'["A"].buffers[k] = A.buffers[k]

\* C29: for every set of keys GetAvailableBufferId ends with an id that is
\* not a key of buffers, is at most |buffers| and is not below 0 (the scan
\* never decrements at 0), so the buffer New inserts under it replaces none.
C29_UnusedId == [][C29_Step]_vars

\* New has created a buffer below keys that the scan had to pass
C29_Witness ==
    /\ last.op = "New" /\ last.ptr[2] = 0
    /\ A.buffers[last.ptr[1]].segment_count = 1
    /\ last.ptr[1] + 2 \in DOMAIN A.buffers
    /\ last.ptr[1] + 2 <= Cardinality(DOMAIN A.buffers) - 1

====
